---------------------------- MODULE Spec2Model ----------------------------
(***************************************************************************)
(* Model of Image-Verification.py: preprocess_image, extract_text_from_    *)
(* image, validate_text and main.                                          *)
(*                                                                         *)
(* A text is a sequence of one-character strings.  An error message is a   *)
(* record [kind, arg]: kind stands for the fixed wording of the f-string   *)
(* and arg for the text interpolated into it, so two messages are equal    *)
(* exactly when the Python strings are.                                    *)
(***************************************************************************)
EXTENDS Integers, Sequences, FiniteSets, TLC

VARIABLES
    pc,                \* position of the running call
    caller,            \* who called validate_text: "main" or "test"
    hashSeed,          \* the process's string-hash seed (fixes set iteration order)
    processed_image,   \* main's local: "none" or "binary"
    text,              \* main's local / validate_text's argument
    errors,            \* validate_text's local list
    sentences,         \* validate_text's local list
    validation_result, \* validate_text's local dict
    exc,               \* the exception in flight, "none" when there is none
    output,            \* what has been printed to stdout so far
    calls,             \* history: how many times each function was called
    failedAt,          \* history: the stage whose exception reached the handler
    appended,          \* history: messages appended by each check of this call
    prev_result        \* history: the report returned by the previous call

vars == <<pc, caller, hashSeed, processed_image, text, errors, sentences,
          validation_result, exc, output, calls, failedAt, appended,
          prev_result>>

-----------------------------------------------------------------------------
(* Bounds *)

\* longest enumerated OCR text
MaxLen == 4

\* the string-hash seeds explored: one per iteration order of a two-word set
HashSeeds == {0, 1}

-----------------------------------------------------------------------------
(* Characters *)

UpperLetters ==
    <<"A","B","C","D","E","F","G","H","I","J","K","L","M",
      "N","O","P","Q","R","S","T","U","V","W","X","Y","Z">>

LowerLetters ==
    <<"a","b","c","d","e","f","g","h","i","j","k","l","m",
      "n","o","p","q","r","s","t","u","v","w","x","y","z">>

Digits == {"0","1","2","3","4","5","6","7","8","9"}

Range(s) == {s[i] : i \in DOMAIN s}

\* str.isspace for the characters an OCR text holds
IsSpace(c) == c \in {" ", "\n", "\t"}

\* the regular expression class \w
IsWordChar(c) == c \in Range(UpperLetters) \cup Range(LowerLetters) \cup Digits \cup {"_"}

\* the regular expression class [.!?]
IsTerminator(c) == c \in {".", "!", "?"}

\* str.lower on one character
LowerChar(c) ==
    IF c \in Range(UpperLetters)
    THEN LowerLetters[CHOOSE i \in DOMAIN UpperLetters : UpperLetters[i] = c]
    ELSE c

\* str.lower
Lower(w) == [i \in DOMAIN w |-> LowerChar(w[i])]

Min(S) == CHOOSE x \in S : \A y \in S : x <= y
Max(S) == CHOOSE x \in S : \A y \in S : x >= y

\* s[i:] with i counted from 1
Tail_(s, i) == SubSeq(s, i, Len(s))

Reverse(s) == [i \in DOMAIN s |-> s[Len(s) + 1 - i]]

-----------------------------------------------------------------------------
(* String functions used by validate_text *)

\* str.strip()
Strip(s) ==
    LET keep == {i \in DOMAIN s : ~IsSpace(s[i])}
    IN  IF keep = {} THEN <<>> ELSE SubSeq(s, Min(keep), Max(keep))

\* str.split(sep) for a one-character separator
RECURSIVE Split(_, _)
Split(s, sep) ==
    LET at == {i \in DOMAIN s : s[i] = sep}
    IN  IF at = {} THEN <<s>>
        ELSE <<SubSeq(s, 1, Min(at) - 1)>> \o Split(Tail_(s, Min(at) + 1), sep)

\* re.findall(r'\b\w+\b', s): the maximal runs of word characters, in order
RECURSIVE FindAllWords(_)
FindAllWords(s) ==
    LET starts == {i \in DOMAIN s : IsWordChar(s[i])}
    IN  IF starts = {} THEN <<>>
        ELSE LET b == Min(starts)
                 stops == {j \in b..Len(s) : ~IsWordChar(s[j])}
                 e == IF stops = {} THEN Len(s) ELSE Min(stops) - 1
             IN  <<SubSeq(s, b, e)>> \o FindAllWords(Tail_(s, e + 1))

\* re.split(r'(?<=[.!?])\s+', s): cut at each maximal run of whitespace that
\* starts right after a terminator; the run itself is dropped
RECURSIVE ReSplit(_)
ReSplit(s) ==
    LET cuts == {i \in 2..Len(s) : IsTerminator(s[i-1]) /\ IsSpace(s[i])}
    IN  IF cuts = {} THEN <<s>>
        ELSE LET b == Min(cuts)
                 rest == {j \in b..Len(s) : ~IsSpace(s[j])}
                 e == IF rest = {} THEN Len(s) ELSE Min(rest) - 1
             IN  <<SubSeq(s, 1, b - 1)>> \o ReSplit(Tail_(s, e + 1))

\* str.endswith('.')
EndsWithPeriod(s) == Len(s) > 0 /\ s[Len(s)] = "."

-----------------------------------------------------------------------------
(* The spell checker *)

\* The words of SpellChecker()'s English word-frequency list that the texts
\* below can spell; every other token is unknown to it.
Dictionary ==
    { <<"a">>, <<"b">>, <<"c">>,
      <<"i","s">>, <<"e","n","d">>, <<"t","h","i","s">>, <<"f","i","n","e">>,
      <<"f","o","o">>, <<"b","a","r">> }

\* the elements of a list without repetitions, in order of first occurrence
RECURSIVE Dedup(_)
Dedup(s) ==
    IF s = <<>> THEN <<>>
    ELSE <<s[1]>> \o Dedup(SelectSeq(Tail(s), LAMBDA w : w # s[1]))

\* Iteration order of a set of strings built by inserting `s` in order:
\* fixed by the hash seed of the process, not by the program.
SetOrder(s, seed) ==
    IF seed % 2 = 0 THEN Dedup(s) ELSE Reverse(Dedup(s))

\* Variant of Unknown that looks the words up as they are spelled.
UnknownNoLower(words, seed) ==
    SetOrder(SelectSeq(words, LAMBDA w : w \notin Dictionary), seed)

\* SpellChecker.unknown(words) with the default case_sensitive=False: every
\* word is lower-cased, and those not in the dictionary are returned as a set.
Unknown(words, seed) ==
    SetOrder(SelectSeq([i \in DOMAIN words |-> Lower(words[i])],
                       LAMBDA w : w \notin Dictionary), seed)

-----------------------------------------------------------------------------
(* The four checks of validate_text, each as the messages it appends *)

Msg(kind, arg) == [kind |-> kind, arg |-> arg]

\* the line-count policy of check 2
MinLines == 3

\* check 1: one aggregate message when some word is unknown
SpellingErrors(misspelled) ==
    IF misspelled # <<>> THEN <<Msg("spelling", misspelled)>> ELSE <<>>

\* Variant of NonEmptyLines that keeps the blank lines.
NonEmptyLinesAll(t) == Split(t, "\n")

\* lines = text.split('\n'); [line for line in lines if line.strip()]
NonEmptyLines(t) == SelectSeq(Split(t, "\n"), LAMBDA line : Strip(line) # <<>>)

\* check 2
LineErrors(n) ==
    IF n < MinLines THEN <<Msg("lines", <<>>)>> ELSE <<>>

\* sentences = re.split(..., text.strip())
Sentences(t) == ReSplit(Strip(t))

\* Variant of ButLast that keeps the last sentence.
AllOfThem(ss) == ss

\* sentences[:-1]
ButLast(ss) == SubSeq(ss, 1, Len(ss) - 1)

\* check 3: one message for each sentence but the last that lacks the period
RECURSIVE PunctErrorsOf(_)
PunctErrorsOf(ss) ==
    IF ss = <<>> THEN <<>>
    ELSE (IF ~EndsWithPeriod(ss[1]) THEN <<Msg("punct", ss[1])>> ELSE <<>>)
         \o PunctErrorsOf(Tail(ss))

PunctErrors(ss) == PunctErrorsOf(ButLast(ss))

\* Variant of HasSpaceRun that takes any two whitespace characters.
HasSpaceRunAnyBlank(t) ==
    \E i \in 1..(Len(t) - 1) : IsSpace(t[i]) /\ IsSpace(t[i+1])

\* re.search(r' {2,}', text)
HasSpaceRun(t) ==
    \E i \in 1..(Len(t) - 1) : t[i] = " " /\ t[i+1] = " "

\* Variant of SpaceErrors with one message for each run of spaces.
SpaceErrorsPerRun(t) ==
    [k \in 1..Cardinality({i \in 1..(Len(t) - 1) :
                             /\ t[i] = " " /\ t[i+1] = " "
                             /\ (i = 1 \/ t[i-1] # " ")}) |-> Msg("space", <<>>)]

\* check 4: one message however many runs there are
SpaceErrors(t) ==
    IF HasSpaceRun(t) THEN <<Msg("space", <<>>)>> ELSE <<>>

\* Variant of AppendAll that inserts at the head of the list.
AppendFront(errs, ms) == ms \o errs

\* errors.append(m) for each m of ms
AppendAll(errs, ms) == errs \o ms

\* Variant of IsValid that tolerates one message.
IsValidLenient(errs) == Len(errs) <= 1

\* len(errors) == 0
IsValid(errs) == Len(errs) = 0

-----------------------------------------------------------------------------
(* Inputs *)

\* the characters of the enumerated OCR texts: a letter that is a known word,
\* a capital that is not, two terminators, a space and a line break
Alphabet == {"a", "Q", ".", "!", " ", "\n"}

BoundedTexts == UNION {[1..n -> Alphabet] : n \in 0..MaxLen}

AbcText == <<"A", ".", " ", "B", ".", " ", "C">>

HeloText ==
    <<"H","e","l","o"," ","w","r","l","d",".","\n",
      "T","h","i","s"," ","i","s"," ","f","i","n","e",".","\n",
      "E","n","d">>

FooBarText == <<"f","o","o"," "," ","b","a","r">>

ManyRunsText == <<"a"," "," ","a"," "," "," ","a">>

ThreeLinesText == <<"a", ".", "\n", "b", ".", "\n", "c">>

BlankLinesText == <<"a", "\n", " ", "\t", "\n", "\n", "b", "\n", "c", "\n">>

QuestionsText == <<"Q", "!", " ", "b", "?", " ", " ", "c", ".", "\t", "a">>

ScenarioTexts ==
    {AbcText, HeloText, FooBarText, ManyRunsText, ThreeLinesText,
     BlankLinesText, QuestionsText}

\* what pytesseract.image_to_string may return
Texts == BoundedTexts \cup ScenarioTexts

-----------------------------------------------------------------------------
(* State helpers *)

EmptyDict == [k \in {} |-> 0]

Item(kind, arg) == [kind |-> kind, arg |-> arg]

Kinds(items) == [i \in DOMAIN items |-> items[i].kind]

Bump(f, k) == [f EXCEPT ![k] = @ + 1]

\* Variant of Catches for a handler written `except FileNotFoundError`.
CatchesOnlyNotFound(e) == e = "FileNotFoundError"

\* `except Exception`: every class the pipeline raises derives from Exception
\* (FileNotFoundError and the prints' errors from OSError, pytesseract's
\* TesseractNotFoundError from EnvironmentError)
Catches(e) == e \in {"FileNotFoundError", "TesseractNotFoundError", "OSError"}

\* Variant of FreshErrors for a list that outlives the call.
KeepErrors(old) == old

\* errors = []
FreshErrors(old) == <<>>

\* Variant of Diagnostic that prints the traceback as well.
DiagnosticWithTrace(e) == <<Item("diag", <<e>>), Item("traceback", <<e>>)>>

\* the handler's print
Diagnostic(e) == <<Item("diag", <<e>>)>>

\* the two prints of the raw-text block
RawBlock(t) == <<Item("raw_header", <<>>), Item("raw", t)>>

\* the prints of the report
ReportBlock(r) ==
    <<Item("report_header", <<>>),
      Item("misspelled", r["misspelled_words"]),
      Item("lines_count", <<r["lines_count"]>>),
      Item("errors_header", <<>>)>>
    \o (IF r["errors"] # <<>>
        THEN [i \in DOMAIN r["errors"] |-> Item("error", r["errors"][i])]
        ELSE <<Item("success", <<>>)>>)

\* an exception of class e raised at `stage` inside the try block of main,
\* or inside validate_text called from elsewhere
Raise(e, stage) ==
    /\ exc' = e
    /\ failedAt' = Append(failedAt, stage)
    /\ pc' = IF caller = "main" THEN "except" ELSE "propagated"

-----------------------------------------------------------------------------
(* Initial states *)

InitCommon ==
    /\ hashSeed \in HashSeeds
    /\ processed_image = "none"
    /\ errors = <<>>
    /\ sentences = <<>>
    /\ validation_result = EmptyDict
    /\ exc = "none"
    /\ output = <<>>
    /\ calls = [preprocess |-> 0, extract |-> 0, validate |-> 0]
    /\ failedAt = <<>>
    /\ appended = <<>>
    /\ prev_result = EmptyDict

\* the script: main(image_path)
Init ==
    /\ InitCommon
    /\ pc = "main"
    /\ caller = "main"
    /\ text = <<>>

\* validate_text called directly, twice, on one string
InitValidate ==
    /\ InitCommon
    /\ pc = "v_start"
    /\ caller = "test"
    /\ text \in Texts

-----------------------------------------------------------------------------
(* main *)

\* processed_image = preprocess_image(image_path)
Preprocess ==
    /\ pc = "main"
    /\ calls' = Bump(calls, "preprocess")
    /\ \E decodable \in BOOLEAN :
          IF decodable
          THEN /\ processed_image' = "binary"
               /\ pc' = "extract"
               /\ UNCHANGED <<exc, failedAt>>
          ELSE /\ Raise("FileNotFoundError", "preprocess")
               /\ UNCHANGED processed_image
    /\ UNCHANGED <<caller, hashSeed, text, errors, sentences, validation_result,
                   output, appended, prev_result>>

\* text = extract_text_from_image(processed_image)
Extract ==
    /\ pc = "extract"
    /\ calls' = Bump(calls, "extract")
    /\ \/ \E t \in Texts :
             /\ text' = t
             /\ pc' = "print_raw"
             /\ UNCHANGED <<exc, failedAt>>
       \/ /\ Raise("TesseractNotFoundError", "extract")
          /\ UNCHANGED text
    /\ UNCHANGED <<caller, hashSeed, processed_image, errors, sentences,
                   validation_result, output, appended, prev_result>>

\* print each item of `items` in turn; a print may raise OSError, and then
\* the items before it have been printed
PrintBlock(items, stage, next) ==
    \E n \in 0..Len(items) :
        /\ output' = output \o SubSeq(items, 1, n)
        /\ IF n = Len(items)
           THEN /\ pc' = next
                /\ UNCHANGED <<exc, failedAt>>
           ELSE Raise("OSError", stage)

PrintRaw ==
    /\ pc = "print_raw"
    /\ PrintBlock(RawBlock(text), "print_raw", "v_start")
    /\ UNCHANGED <<caller, hashSeed, processed_image, text, errors, sentences,
                   validation_result, calls, appended, prev_result>>

PrintReport ==
    /\ pc = "returned"
    /\ caller = "main"
    /\ PrintBlock(ReportBlock(validation_result), "print_report", "done")
    /\ UNCHANGED <<caller, hashSeed, processed_image, text, errors, sentences,
                   validation_result, calls, appended, prev_result>>

\* except Exception as e: print(...)
Except ==
    /\ pc = "except"
    /\ IF Catches(exc)
       THEN \/ /\ output' = output \o Diagnostic(exc)
               /\ exc' = "none"
               /\ pc' = "done"
               /\ UNCHANGED failedAt
            \/ /\ exc' = "OSError"
               /\ failedAt' = Append(failedAt, "handler")
               /\ pc' = "propagated"
               /\ UNCHANGED output
       ELSE /\ pc' = "propagated"
            /\ UNCHANGED <<exc, failedAt, output>>
    /\ UNCHANGED <<caller, hashSeed, processed_image, text, errors, sentences,
                   validation_result, calls, appended, prev_result>>

-----------------------------------------------------------------------------
(* validate_text *)

\* validation_result = {}; errors = []
VStart ==
    /\ pc = "v_start"
    /\ calls' = Bump(calls, "validate")
    /\ validation_result' = EmptyDict
    /\ errors' = FreshErrors(errors)
    /\ sentences' = <<>>
    /\ appended' = <<>>
    /\ pc' = "v_spell"
    /\ UNCHANGED <<caller, hashSeed, processed_image, text, exc, output,
                   failedAt, prev_result>>

\* check 1; SpellChecker() reads its word list from disk and may raise
VSpell ==
    /\ pc = "v_spell"
    /\ \/ LET misspelled == Unknown(FindAllWords(text), hashSeed)
              new == SpellingErrors(misspelled)
          IN  /\ errors' = AppendAll(errors, new)
              /\ appended' = Append(appended, <<"spelling", Len(new)>>)
              /\ validation_result' =
                     ("misspelled_words" :> misspelled) @@ validation_result
              /\ pc' = "v_lines"
              /\ UNCHANGED <<exc, failedAt>>
       \/ /\ Raise("OSError", "validate")
          /\ UNCHANGED <<errors, appended, validation_result>>
    /\ UNCHANGED <<caller, hashSeed, processed_image, text, sentences, output,
                   calls, prev_result>>

\* check 2
VLines ==
    /\ pc = "v_lines"
    /\ LET n == Len(NonEmptyLines(text))
           new == LineErrors(n)
       IN  /\ errors' = AppendAll(errors, new)
           /\ appended' = Append(appended, <<"lines", Len(new)>>)
           /\ validation_result' = ("lines_count" :> n) @@ validation_result
    /\ pc' = "v_punct"
    /\ UNCHANGED <<caller, hashSeed, processed_image, text, sentences, exc,
                   output, calls, failedAt, prev_result>>

\* check 3
VPunct ==
    /\ pc = "v_punct"
    /\ LET ss == Sentences(text)
           new == PunctErrors(ss)
       IN  /\ sentences' = ss
           /\ errors' = AppendAll(errors, new)
           /\ appended' = Append(appended, <<"punct", Len(new)>>)
    /\ pc' = "v_space"
    /\ UNCHANGED <<caller, hashSeed, processed_image, text, validation_result,
                   exc, output, calls, failedAt, prev_result>>

\* check 4
VSpace ==
    /\ pc = "v_space"
    /\ LET new == SpaceErrors(text)
       IN  /\ errors' = AppendAll(errors, new)
           /\ appended' = Append(appended, <<"space", Len(new)>>)
    /\ pc' = "v_return"
    /\ UNCHANGED <<caller, hashSeed, processed_image, text, sentences,
                   validation_result, exc, output, calls, failedAt, prev_result>>

\* validation_result['errors'] = errors; ['is_valid'] = ...; return
VReturn ==
    /\ pc = "v_return"
    /\ validation_result' =
           ("errors" :> errors) @@ ("is_valid" :> IsValid(errors))
           @@ validation_result
    /\ pc' = "returned"
    /\ UNCHANGED <<caller, hashSeed, processed_image, text, errors, sentences,
                   exc, output, calls, failedAt, appended, prev_result>>

\* the second of two direct calls on the same string
CallAgain ==
    /\ pc = "returned"
    /\ caller = "test"
    /\ calls.validate = 1
    /\ prev_result' = validation_result
    /\ pc' = "v_start"
    /\ UNCHANGED <<caller, hashSeed, processed_image, text, errors, sentences,
                   validation_result, exc, output, calls, failedAt, appended>>

-----------------------------------------------------------------------------
(* Specifications *)

Validate == VStart \/ VSpell \/ VLines \/ VPunct \/ VSpace \/ VReturn

Next == Preprocess \/ Extract \/ PrintRaw \/ Validate \/ PrintReport \/ Except

Spec == Init /\ [][Next]_vars

NextValidate == Validate \/ CallAgain

SpecValidate == InitValidate /\ [][NextValidate]_vars

-----------------------------------------------------------------------------
(* Vocabulary of the properties *)

\* validate_text has returned and validation_result is the report
Returned == pc = "returned"

\* main has ended: by returning, or by an exception leaving it
Terminal == pc \in {"done", "propagated"}

\* the messages of one check, in the order they stand in the list
OfKind(errs, kind) == SelectSeq(errs, LAMBDA m : m.kind = kind)

\* detection order of the checks
Rank(kind) ==
    CASE kind = "spelling" -> 1
      [] kind = "lines"    -> 2
      [] kind = "punct"    -> 3
      [] kind = "space"    -> 4

\* the k-th smallest element of a set of integers
Kth(S, k) == CHOOSE x \in S : Cardinality({y \in S : y < x}) = k - 1

RECURSIVE Sum(_)
Sum(ns) == IF ns = <<>> THEN 0 ELSE ns[1] + Sum(Tail(ns))

\* the last position of each sentence but the last of a stripped text s: a
\* terminator followed by whitespace
SentenceEnds(s) ==
    {i \in 1..(Len(s) - 1) : IsTerminator(s[i]) /\ IsSpace(s[i+1])}

\* where the sentence that ends at position i of s begins
SentenceStart(s, i) ==
    LET before == {b \in SentenceEnds(s) : b < i}
    IN  IF before = {} THEN 1
        ELSE Min({j \in (Max(before) + 1)..i : ~IsSpace(s[j])})

\* the positions of text t that hold the first non-blank character of a line
LineHeads(t) ==
    {i \in DOMAIN t :
        /\ ~IsSpace(t[i])
        /\ \A j \in 1..(i - 1) :
              (\A k \in j..(i - 1) : t[k] # "\n") => IsSpace(t[j])}

\* the stage that failed was image loading or OCR
InfraFailed == failedAt # <<>> /\ failedAt[1] \in {"preprocess", "extract"}

RawKinds == {"raw_header", "raw"}

ReportKinds ==
    {"report_header", "misspelled", "lines_count", "errors_header", "error",
     "success"}

-----------------------------------------------------------------------------
(* Properties *)

\* C1: the report has is_valid = true exactly when its errors list is empty,
\* which is exactly when none of the four checks appended a message.
C1_IsValidIffNoErrors ==
    Returned =>
        /\ validation_result["is_valid"] = (validation_result["errors"] = <<>>)
        /\ validation_result["is_valid"] =
               (\A i \in DOMAIN appended : appended[i][2] = 0)

\* C1 witness: a report that is valid, and whose text passed all four checks.
C1_Witness ==
    /\ Returned
    /\ validation_result["is_valid"]
    /\ Len(appended) = 4
    /\ validation_result["lines_count"] >= MinLines

\* C2 as stated: no exception ever leaves main.
C2_NoExceptionLeavesMain == pc # "propagated"

\* C2 amended: every exception raised inside the try block (by the two
\* stages, by validate_text or by a print) is caught and answered with one
\* diagnostic, after which main returns; the only exception that leaves main
\* is one raised by the handler's own print; and until main has ended it is
\* at a statement that can run.
C2_OnlyHandlerFaultLeavesMain ==
    /\ pc = "propagated" =>
          /\ Len(failedAt) = 2
          /\ failedAt[2] = "handler"
          /\ failedAt[1] # "handler"
    /\ (pc = "done" /\ failedAt # <<>>) =>
          /\ Len(failedAt) = 1
          /\ exc = "none"
          /\ output # <<>>
          /\ output[Len(output)].kind = "diag"
          /\ Len(OfKind(output, "diag")) = 1
    /\ ~Terminal =>
          \/ pc \in {"main", "extract", "print_raw", "except", "v_start",
                     "v_spell", "v_lines", "v_punct", "v_space", "v_return"}
          \/ pc = "returned" /\ caller = "main"

\* C2 witness: OCR failed, the handler printed its diagnostic, main returned.
C2_Witness ==
    /\ pc = "done"
    /\ failedAt = <<"extract">>
    /\ Kinds(output) = <<"diag">>
    /\ exc = "none"

\* C3 as stated: every check appends at most one message, so errors never
\* holds more than four.
C3_AtMostFourErrors ==
    Returned =>
        /\ \A i \in DOMAIN appended : appended[i][2] <= 1
        /\ Len(errors) <= 4

\* C3 amended: the spelling, line-count and whitespace checks append zero or
\* one message each, the punctuation check one for each offending sentence
\* before the last; so errors holds at most 3 + (number of sentences - 1).
C3_ErrorsBound ==
    Returned =>
        /\ Len(OfKind(errors, "spelling")) <= 1
        /\ Len(OfKind(errors, "lines")) <= 1
        /\ Len(OfKind(errors, "space")) <= 1
        /\ Len(OfKind(errors, "punct")) <= Len(sentences) - 1
        /\ Len(errors) <= 3 + (Len(sentences) - 1)
        /\ \A i \in DOMAIN appended :
              appended[i][1] # "punct" => appended[i][2] <= 1

\* C3 witness: a report with five messages, two of them from the
\* punctuation check.
C3_Witness ==
    /\ Returned
    /\ Len(errors) > 4
    /\ Len(OfKind(errors, "punct")) = 2

\* C4: all four checks run on every text, in the fixed order, whatever the
\* earlier ones found; every message they produce is in errors, and errors
\* is ordered spelling, line count, punctuation, whitespace.
C4_AllRunInDetectionOrder ==
    Returned =>
        /\ [i \in DOMAIN appended |-> appended[i][1]]
               = <<"spelling", "lines", "punct", "space">>
        /\ \A i \in DOMAIN appended :
              Len(OfKind(errors, appended[i][1])) = appended[i][2]
        /\ Len(errors) = Sum([i \in DOMAIN appended |-> appended[i][2]])
        /\ \A i, j \in DOMAIN errors :
              i < j => Rank(errors[i].kind) <= Rank(errors[j].kind)

\* C4 witness: every check found something, and each left its message.
C4_Witness ==
    /\ Returned
    /\ \A i \in DOMAIN appended : appended[i][2] >= 1
    /\ {errors[i].kind : i \in DOMAIN errors}
           = {"spelling", "lines", "punct", "space"}

\* C5 as stated: the text itself is split at whitespace following a
\* terminator, and each segment but the last gets a message iff it lacks
\* the period.
C5_SplitsTheTextAsGiven ==
    Returned =>
        OfKind(errors, "punct") = PunctErrorsOf(ButLast(ReSplit(text)))

\* C5 amended: the text, with its leading and trailing whitespace removed,
\* is split at whitespace following '.', '!' or '?'; each segment but the
\* last gets exactly one message naming it iff it does not end with '.';
\* the last segment gets none.
C5_PunctuationOfStrippedText ==
    Returned =>
        LET s == Strip(text)
            ends == SentenceEnds(s)
            bad == {i \in ends : s[i] # "."}
        IN  /\ Len(sentences) = Cardinality(ends) + 1
            /\ \A k \in 1..Cardinality(ends) :
                  sentences[k] =
                      SubSeq(s, SentenceStart(s, Kth(ends, k)), Kth(ends, k))
            /\ OfKind(errors, "punct") =
                   [k \in 1..Cardinality(bad) |->
                       Msg("punct",
                           SubSeq(s, SentenceStart(s, Kth(bad, k)), Kth(bad, k)))]
            /\ text = AbcText =>
                  /\ sentences = << <<"A", ".">>, <<"B", ".">>, <<"C">> >>
                  /\ OfKind(errors, "punct") = <<>>

\* C5 witness: three sentences or more, a message for one before the last,
\* and a last one without closing punctuation that got none.
C5_Witness ==
    /\ Returned
    /\ Len(sentences) >= 3
    /\ sentences[Len(sentences)] # <<>>
    /\ ~IsTerminator(sentences[Len(sentences)][Len(sentences[Len(sentences)])])
    /\ Len(OfKind(errors, "punct")) >= 1
    /\ \A i \in DOMAIN errors :
          errors[i].kind = "punct" => errors[i].arg # sentences[Len(sentences)]

\* C6: lines_count is the number of lines, split on the line break, that
\* hold a non-blank character; the line-count message is absent when
\* lines_count >= 3 and present exactly once when lines_count < 3.
C6_LinesCount ==
    Returned =>
        /\ validation_result["lines_count"] = Cardinality(LineHeads(text))
        /\ Len(OfKind(validation_result["errors"], "lines")) =
               (IF validation_result["lines_count"] >= 3 THEN 0 ELSE 1)

\* C6 witness: a text with blank lines among three non-blank ones.
C6_Witness ==
    /\ Returned
    /\ validation_result["lines_count"] = 3
    /\ Len(Split(text, "\n")) > 3
    /\ OfKind(errors, "lines") = <<>>

\* C7 as stated: after a failure of preprocess_image or
\* extract_text_from_image the output is exactly one diagnostic.
C7_ExactlyOneDiagnostic ==
    (Terminal /\ InfraFailed) => Kinds(output) = <<"diag">>

\* C7 amended: after a failure of preprocess_image or
\* extract_text_from_image nothing is printed but the diagnostic, at most
\* once (once when main returns, never when the handler's print raised),
\* validate_text is not called and no stage is run again; raw text is
\* printed only after a successful extraction, the report only after the
\* whole raw-text block.
C7_FailureOutput ==
    /\ InfraFailed =>
          /\ calls.validate = 0
          /\ calls.preprocess = 1
          /\ calls.extract <= 1
          /\ Kinds(output) \in {<<>>, <<"diag">>}
          /\ pc = "done" => Kinds(output) = <<"diag">>
          /\ pc = "propagated" => output = <<>>
    /\ calls.preprocess <= 1 /\ calls.extract <= 1 /\ calls.validate <= 1
    /\ \A i \in DOMAIN output :
          /\ output[i].kind \in RawKinds =>
                /\ calls.extract = 1
                /\ processed_image = "binary"
                /\ ~InfraFailed
          /\ output[i].kind \in ReportKinds =>
                /\ i > 2
                /\ Kinds(SubSeq(output, 1, 2)) = <<"raw_header", "raw">>
                /\ output[2].arg = text
                /\ calls.validate = 1

\* C7 witness: the image could not be loaded, one diagnostic was printed,
\* nothing else ran.
C7_Witness ==
    /\ pc = "done"
    /\ failedAt = <<"preprocess">>
    /\ Kinds(output) = <<"diag">>
    /\ calls = [preprocess |-> 1, extract |-> 0, validate |-> 0]

\* C8: the whitespace message is in errors exactly once when the text holds
\* two adjacent space characters, however many such runs, and is absent
\* otherwise.
C8_WhitespaceOnce ==
    Returned =>
        Len(OfKind(validation_result["errors"], "space")) =
            (IF \E i \in DOMAIN text :
                    i + 1 \in DOMAIN text /\ text[i] = " " /\ text[i+1] = " "
             THEN 1 ELSE 0)

\* C8 witness: a text with two separate runs of spaces and one message.
C8_Witness ==
    /\ Returned
    /\ text = ManyRunsText
    /\ Len(OfKind(errors, "space")) = 1

\* C9: the second call of validate_text on a string returns the report the
\* first call returned.
C9_SecondCallSameReport ==
    (Returned /\ calls.validate = 2) => validation_result = prev_result

\* C9 witness: a second call returned, on a text with two misspelled words
\* and messages of two checks or more.
C9_Witness ==
    /\ Returned
    /\ calls.validate = 2
    /\ Len(validation_result["misspelled_words"]) >= 2
    /\ Len(validation_result["errors"]) >= 2

\* C10 as stated: for "Helo wrld.\nThis is fine.\nEnd" the misspelled words
\* include "Helo" and "wrld" as spelled in the text.
C10_HeloAsInText ==
    (Returned /\ text = HeloText) =>
        /\ <<"H","e","l","o">> \in Range(validation_result["misspelled_words"])
        /\ <<"w","r","l","d">> \in Range(validation_result["misspelled_words"])

\* C10 amended: for that text the misspelled words are the lower-cased
\* "helo" and "wrld", lines_count is 3, is_valid is false and the spelling
\* message is the only entry of errors.
C10_HeloLowerCased ==
    (Returned /\ text = HeloText) =>
        /\ Range(validation_result["misspelled_words"])
               = {<<"h","e","l","o">>, <<"w","r","l","d">>}
        /\ Len(validation_result["misspelled_words"]) = 2
        /\ validation_result["lines_count"] = 3
        /\ validation_result["errors"]
               = <<Msg("spelling", validation_result["misspelled_words"])>>
        /\ validation_result["is_valid"] = FALSE

\* C10 witness: validate_text returned on that text.
C10_Witness ==
    /\ Returned
    /\ text = HeloText
    /\ Len(validation_result["errors"]) = 1

=============================================================================
